---- MODULE Spec2Model ----
(***************************************************************************)
(* cdk-sqs-lambda-pattern: API Gateway -> SQS -> Lambda, with dead-letter  *)
(* queues.  The model follows lib/cdk-sqs-lambda-pattern-stack.ts (the     *)
(* BackendStack declarations) and lambda/sample-lambda-2/index.js (the     *)
(* batch consumer).  A message is identified by the index of the POST      *)
(* request that created it.  Characters are one-character strings, a text  *)
(* is a sequence of characters; the long constant words of the request     *)
(* template are single tokens.                                             *)
(***************************************************************************)
EXTENDS Integers, Sequences, FiniteSets, TLC

----------------------------------------------------------------------------
(* Bounds of the model *)

\* POST requests issued (each creates at most one message)
MaxMsgs == 2
\* concurrent consumer invocations (event-source pollers)
MaxInv == 2
\* longest request body explored by SpecEnqueue
MaxBodyLen == 2
\* largest batch explored by SpecHandler
MaxBatch == 3
MaxQueued == 11
Burst == 1999

----------------------------------------------------------------------------
(* Configuration declared by BackendStack *)

\* lambdaFunction1/2: timeout: cdk.Duration.seconds(30)
timeout == 30
\* mutant: the queue hides a message only for the function's timeout
visibilityTimeout_asTimeout == timeout
\* queue1/queue2: visibilityTimeout: cdk.Duration.seconds(60)
visibilityTimeout == 60
\* queue1/queue2: deadLetterQueue.maxReceiveCount
maxReceiveCount == 3
\* dlq1/dlq2: retentionPeriod: cdk.Duration.days(14)
dlqRetentionPeriod == 14
\* queue1/queue2 declare no retentionPeriod: sqs.Queue keeps its default, 4 days
queueRetentionPeriod == 4
\* SqsEventSource: batchSize
batchSize == 10
\* SqsEventSource: maxBatchingWindow: cdk.Duration.seconds(5)
maxBatchingWindow == 5
\* SqsEventSource: reportBatchItemFailures
reportBatchItemFailures == TRUE

\* the two channels: /api/sample-lambda-1 and /api/sample-lambda-2
Chans == {1, 2}
IPs == {1, 2}
Reqs == 1..MaxMsgs
Slots == 1..MaxInv

\* the clock advances in steps of the batching window (5 s)
TickLen == maxBatchingWindow

Undefined == "<undefined>"

----------------------------------------------------------------------------
(* Texts *)

Alphabet == {"{", "}", "1", "&", "=", "%", "+", " "}

RECURSIVE SeqsUpTo(_)
SeqsUpTo(n) ==
  IF n = 0 THEN {<<>>}
  ELSE LET shorter == SeqsUpTo(n - 1)
       IN shorter \cup {Append(s, c) : s \in {t \in shorter : Len(t) = n - 1}, c \in Alphabet}

AllBodies == SeqsUpTo(MaxBodyLen)

\* the bodies posted in the full system: an empty object, and a text that is not JSON
BodySamples == { <<"{", "}">>, <<"1", "&">> }

IndexOf(s, c) ==
  IF \E i \in 1..Len(s) : s[i] = c
  THEN CHOOSE i \in 1..Len(s) : s[i] = c /\ \A j \in 1..(i - 1) : s[j] # c
  ELSE 0

RECURSIVE SplitOn(_, _)
SplitOn(s, sep) ==
  LET i == IndexOf(s, sep)
  IN IF i = 0 THEN <<s>>
     ELSE <<SubSeq(s, 1, i - 1)>> \o SplitOn(SubSeq(s, i + 1, Len(s)), sep)

----------------------------------------------------------------------------
(* $util.urlEncode of the request template (java.net.URLEncoder): letters  *)
(* and digits unchanged, space to "+", every other character to %XX.       *)

EncodeChar(c) ==
  CASE c = " " -> <<"+">>
    [] c = "{" -> <<"%", "7", "B">>
    [] c = "}" -> <<"%", "7", "D">>
    [] c = "&" -> <<"%", "2", "6">>
    [] c = "=" -> <<"%", "3", "D">>
    [] c = "%" -> <<"%", "2", "5">>
    [] c = "+" -> <<"%", "2", "B">>
    [] OTHER   -> <<c>>

RECURSIVE urlEncodeSeq(_)
urlEncodeSeq(s) ==
  IF s = <<>> THEN <<>> ELSE EncodeChar(Head(s)) \o urlEncodeSeq(Tail(s))

\* mutant: the body is put into the form unencoded
urlEncode_raw(s) == s

urlEncode(s) == urlEncodeSeq(s)

(* The decoding SQS applies to an application/x-www-form-urlencoded value *)
HexChar(h1, h2) ==
  CASE <<h1, h2>> = <<"7", "B">> -> "{"
    [] <<h1, h2>> = <<"7", "D">> -> "}"
    [] <<h1, h2>> = <<"2", "6">> -> "&"
    [] <<h1, h2>> = <<"3", "D">> -> "="
    [] <<h1, h2>> = <<"2", "5">> -> "%"
    [] <<h1, h2>> = <<"2", "B">> -> "+"
    [] OTHER -> "?"

RECURSIVE urlDecode(_)
urlDecode(s) ==
  IF s = <<>> THEN <<>>
  ELSE IF Head(s) = "+" THEN <<" ">> \o urlDecode(Tail(s))
  ELSE IF Head(s) = "%" /\ Len(s) >= 3
       THEN <<HexChar(s[2], s[3])>> \o urlDecode(SubSeq(s, 4, Len(s)))
  ELSE <<Head(s)>> \o urlDecode(Tail(s))

----------------------------------------------------------------------------
(* sqsIntegration1/2: the request template and what SQS makes of it *)

\* requestTemplates['application/json'] applied to $input.body and $context.requestId
requestTemplate(body, requestId) ==
  <<"Action", "=", "SendMessage", "&", "MessageBody", "=">> \o urlEncode(body)
  \o <<"&", "MessageAttributes.1.Name", "=", "Source",
       "&", "MessageAttributes.1.Value.StringValue", "=", "API-Gateway",
       "&", "MessageAttributes.1.Value.DataType", "=", "String",
       "&", "MessageAttributes.2.Name", "=", "RequestId",
       "&", "MessageAttributes.2.Value.StringValue", "=", requestId,
       "&", "MessageAttributes.2.Value.DataType", "=", "String">>

\* the form SQS receives: name=value pairs separated by "&"
ParseForm(payload) ==
  LET pairs == SplitOn(payload, "&")
  IN [i \in 1..Len(pairs) |->
        LET p == pairs[i]
            k == IndexOf(p, "=")
        IN IF k = 0 THEN [key |-> urlDecode(p), value |-> <<>>]
           ELSE [key |-> urlDecode(SubSeq(p, 1, k - 1)),
                 value |-> urlDecode(SubSeq(p, k + 1, Len(p)))]]

FormValue(form, key) ==
  IF \E i \in 1..Len(form) : form[i].key = <<key>>
  THEN form[CHOOSE i \in 1..Len(form) :
              form[i].key = <<key>> /\ \A j \in 1..(i - 1) : form[j].key # <<key>>].value
  ELSE <<>>

AttrIndexes == {"1", "2"}
AttrKey(n, field) ==
  CASE n = "1" /\ field = "Name"  -> "MessageAttributes.1.Name"
    [] n = "1" /\ field = "Value" -> "MessageAttributes.1.Value.StringValue"
    [] n = "2" /\ field = "Name"  -> "MessageAttributes.2.Name"
    [] n = "2" /\ field = "Value" -> "MessageAttributes.2.Value.StringValue"

\* the message attributes of a SendMessage form: a set of <<name, string value>>
FormAttributes(form) ==
  { <<FormValue(form, AttrKey(n, "Name")), FormValue(form, AttrKey(n, "Value"))>> :
       n \in {k \in AttrIndexes : FormValue(form, AttrKey(k, "Name")) # <<>>} }

\* the HTTP status SQS answers a SendMessage form with, when the service is available or not
SendMessageStatus(form, available) ==
  IF ~available THEN 503
  ELSE IF FormValue(form, "Action") # <<"SendMessage">> THEN 400
  ELSE IF FormValue(form, "MessageBody") = <<>> THEN 400
  ELSE 200

----------------------------------------------------------------------------
(* sqsIntegration1/2: integrationResponses, and addMethod's methodResponses *)

NoPattern == "<none>"

\* one entry, statusCode '200', with no selectionPattern: the default response
integrationResponses ==
  << [statusCode |-> 200, selectionPattern |-> NoPattern,
      message |-> "Message sent to queue successfully"] >>

methodResponses == {200}

\* a selectionPattern is matched against the backend's HTTP status
PatternMatches(pattern, status) ==
  CASE pattern = "4\\d{2}" -> status \in 400..499
    [] pattern = "5\\d{2}" -> status \in 500..599
    [] OTHER -> FALSE

\* API Gateway takes the first response whose pattern matches the backend status,
\* and the response without a pattern for every status no pattern matches
SelectIntegrationResponse(responses, status) ==
  IF \E i \in 1..Len(responses) : PatternMatches(responses[i].selectionPattern, status)
  THEN responses[CHOOSE i \in 1..Len(responses) :
                   /\ PatternMatches(responses[i].selectionPattern, status)
                   /\ \A j \in 1..(i - 1) : ~PatternMatches(responses[j].selectionPattern, status)]
  ELSE responses[CHOOSE i \in 1..Len(responses) : responses[i].selectionPattern = NoPattern]

\* what the caller of POST /api/<channel> receives for a backend status
MethodResponse(status, requestId) ==
  LET r == SelectIntegrationResponse(integrationResponses, status)
  IN IF r.statusCode \in methodResponses
     THEN [statusCode |-> r.statusCode, message |-> r.message, requestId |-> requestId]
     ELSE [statusCode |-> 500, message |-> "Internal server error", requestId |-> requestId]

\* $context.requestId of request r
ContextRequestId(r) == IF r = 1 THEN "req-1" ELSE IF r = 2 THEN "req-2" ELSE "req-n"

----------------------------------------------------------------------------
(* JSON.parse, for the texts of this model: optional spaces around either  *)
(* a number (digits) or an object without members.                         *)

Digits == {"1", "2", "3", "5", "6", "7"}

RECURSIVE TrimLeft(_)
TrimLeft(s) == IF s # <<>> /\ Head(s) = " " THEN TrimLeft(Tail(s)) ELSE s

RECURSIVE TrimRight(_)
TrimRight(s) ==
  IF s # <<>> /\ s[Len(s)] = " " THEN TrimRight(SubSeq(s, 1, Len(s) - 1)) ELSE s

Trim(s) == TrimRight(TrimLeft(s))

IsNumberText(t) == t # <<>> /\ \A i \in 1..Len(t) : t[i] \in Digits

IsEmptyObjectText(t) ==
  /\ Len(t) >= 2
  /\ t[1] = "{"
  /\ t[Len(t)] = "}"
  /\ \A i \in 2..(Len(t) - 1) : t[i] = " "

\* a text that ends before its value is complete
IsTruncated(t) == t = <<>> \/ (t[1] = "{" /\ \A i \in 2..Len(t) : t[i] = " ")

\* JSON.parse(text): the parsed value, or the SyntaxError thrown
JSONParse(text) ==
  LET t == Trim(text)
  IN IF IsNumberText(t) \/ IsEmptyObjectText(t)
     THEN [threw |-> FALSE, value |-> t]
     ELSE [threw |-> TRUE,
           message |-> IF IsTruncated(t) THEN "Unexpected end of JSON input"
                       ELSE "Unexpected token in JSON"]

----------------------------------------------------------------------------
(* lambda/sample-lambda-2/index.js *)

\* obj.name in JavaScript: undefined for a property the object lacks
Prop(obj, name) == IF name \in DOMAIN obj THEN obj[name] ELSE Undefined

\* the values `filter(result => result.error)` keeps
Truthy(v) == v # Undefined /\ v # ""

\* mutant: the catch block records no error text
ProcessRecord_noError(record) ==
  LET parsed == JSONParse(record.body)
  IN IF ~parsed.threw
     THEN [messageId |-> record.messageId, processedBy |-> "sample-lambda-2",
           data |-> parsed.value]
     ELSE [itemIdentifier |-> record.messageId, error |-> ""]

\* the message-level operations of the loop body that can throw, and those of them
\* record makes throw: JSON.parse on a body that is not JSON, slice on a messageId
\* that is not a string
MessageOps == {"JSON.parse", "messageId.slice"}

Throws(op, record) ==
  \/ op = "JSON.parse" /\ JSONParse(record.body).threw
  \/ op = "messageId.slice" /\ record.messageId = Undefined

\* mutant: the body is parsed before the try block
InTry_parseOutside == {"messageId.slice"}

\* the operations between try { and } catch
InTry == {"JSON.parse", "messageId.slice"}

\* an error thrown for record is not caught by the handler
Escapes(record) == \E op \in MessageOps \ InTry : Throws(op, record)

\* what the try block does for record: the value parsed, or the error thrown; a
\* record's fault, if it has one, is the error its processing throws
TryBlock(record) ==
  IF Prop(record, "fault") # Undefined
  THEN [threw |-> TRUE, message |-> record.fault]
  ELSE JSONParse(record.body)

\* the body of the for loop: the try block's processedData, or the catch block's entry
ProcessRecord(record) ==
  LET parsed == TryBlock(record)
  IN IF ~parsed.threw
     THEN [messageId |-> record.messageId,
           receiptHandle |-> record.receiptHandle,
           source |-> IF Truthy(Prop(record.messageAttributes, "Source"))
                      THEN record.messageAttributes.Source ELSE "unknown",
           requestId |-> IF Truthy(Prop(record.messageAttributes, "RequestId"))
                         THEN record.messageAttributes.RequestId ELSE "unknown",
           processedBy |-> "sample-lambda-2",
           data |-> parsed.value]
     ELSE [itemIdentifier |-> record.messageId, error |-> parsed.message]

\* results after the loop has handled the first n records
ResultsAfter(records, n) == [i \in 1..n |-> ProcessRecord(records[i])]

\* mutant: the filter finds no result with an error
Failing_none(result) == FALSE

\* the filter of line 51: result => result.error
Failing(result) == Truthy(Prop(result, "error"))

\* mutant: the loop ends at the first record that fails
LoopContinues_untilFailure(results, records) ==
  /\ Len(results) < Len(records)
  /\ \A k \in 1..Len(results) : ~Failing(results[k])

\* for (const record of event.Records): there is a record left to handle
LoopContinues(results, records) == Len(results) < Len(records)

\* what the handler returns after its loop
ReturnValue(results) ==
  LET failures == SelectSeq(results, Failing)
  IN IF Len(failures) > 0
     THEN [batchItemFailures |->
             [i \in 1..Len(failures) |-> [itemIdentifier |-> failures[i].itemIdentifier]]]
     ELSE [statusCode |-> 200, processedCount |-> Len(results), results |-> results]

\* exports.handler: the value returned for an event
handler(event) == ReturnValue(ResultsAfter(event.Records, Len(event.Records)))

----------------------------------------------------------------------------
(* lambda/sample-lambda-1/index.js: the consumer of channel 1, by its      *)
(* contract: every message whose payload does not parse is reported, the   *)
(* others are not, and an empty report is unconditional success.           *)

handler1(event) ==
  LET threw(record) == JSONParse(record.body).threw
      failures == SelectSeq(event.Records, threw)
  IN IF Len(failures) > 0
     THEN [batchItemFailures |->
             [i \in 1..Len(failures) |-> [itemIdentifier |-> failures[i].messageId]]]
     ELSE [statusCode |-> 200, processedCount |-> Len(event.Records)]

\* the function BackendStack attaches to the queue of channel c
HandlerOf(c, event) == IF c = 2 THEN handler(event) ELSE handler1(event)

----------------------------------------------------------------------------
(* State *)

VARIABLES
  request,       \* request r as submitted: [chan, body], chan = 0 before it is made
  sqsStatus,     \* the HTTP status SQS answered request r's SendMessage with, 0 before
  response,      \* what the caller of request r received
  msg,           \* the message request r created: [chan, body, attrs]
  queue,         \* queue[c]: the messages stored in the primary queue of channel c
  dlq,           \* dlq[c]: the messages stored in the dead-letter queue of channel c
  deleted,       \* messages deleted from their primary queue after a delivery
  expired,       \* messages discarded by a retention period
  visLeft,       \* seconds until message m is visible again, 0 = visible
  receiveCount,  \* ApproximateReceiveCount of message m
  failedCount,   \* deliveries of m to the consumer that ended without its deletion
  age,           \* days since message m was sent
  inv,           \* the consumer invocations: [state, chan, batch, timer, reported]
  hEvent,        \* the event handed to the handler
  hResponse,     \* the value the handler returned
  hResults,      \* the handler's results array while its loop runs
  hError,        \* the error that escaped the handler, NoError if none
  edge,          \* request r at the distribution: [verdict, ip], verdict "none" before
  edgeCount      \* edgeCount[ip]: the requests of ip the rate rule counts in its window

vars == <<request, sqsStatus, response, msg, queue, dlq, deleted, expired, visLeft,
          receiveCount, failedCount, age, inv, hEvent, hResponse, hResults, hError,
          edge, edgeCount>>

apiVars == <<request, sqsStatus, response>>
handlerVars == <<hEvent, hResponse, hResults, hError>>
edgeVars == <<edge, edgeCount>>

NoRequest == [chan |-> 0, body |-> <<>>]
NoResponse == [statusCode |-> 0, message |-> "", requestId |-> ""]
NoMsg == [chan |-> 0, body |-> <<>>, attrs |-> {}]
IdleInv == [state |-> "idle", chan |-> 0, batch |-> <<>>, timer |-> 0, reported |-> {}]
NoEvent == [Records |-> <<>>]
NotReturned == [pending |-> TRUE]
NoError == "<none>"
NotSeen == [verdict |-> "none", ip |-> 0]

Init ==
  /\ request = [r \in Reqs |-> NoRequest]
  /\ sqsStatus = [r \in Reqs |-> 0]
  /\ response = [r \in Reqs |-> NoResponse]
  /\ msg = [r \in Reqs |-> NoMsg]
  /\ queue = [c \in Chans |-> {}]
  /\ dlq = [c \in Chans |-> {}]
  /\ deleted = {}
  /\ expired = {}
  /\ visLeft = [r \in Reqs |-> 0]
  /\ receiveCount = [r \in Reqs |-> 0]
  /\ failedCount = [r \in Reqs |-> 0]
  /\ age = [r \in Reqs |-> 0]
  /\ inv = [i \in Slots |-> IdleInv]
  /\ hEvent = NoEvent
  /\ hResponse = NotReturned
  /\ hResults = <<>>
  /\ hError = NoError
  /\ edge = [r \in Reqs |-> NotSeen]
  /\ edgeCount = [ip \in IPs |-> 0]

Range(s) == {s[k] : k \in 1..Len(s)}
Stored == UNION {queue[c] : c \in Chans}
DeadLettered == UNION {dlq[c] : c \in Chans}
Visible(m) == m \in Stored /\ visLeft[m] = 0
Active(i) == inv[i].state \in {"batching", "running"}
Ended(i) == inv[i].state \in {"returned", "failed", "timedout"}

----------------------------------------------------------------------------
(* POST /api/sample-lambda-<c>: the AwsIntegration's SendMessage and the    *)
(* response mapped back to the caller.  Requests are made in order, and    *)
(* all of them before the first day has passed.                            *)

\* the queue sqsIntegration<c> sends to, and the dead-letter queue of queue<c>
QueueOf(c) == c

\* mutant: both queues name the dead-letter queue of channel 1
DlqOf_shared(c) == 1

DlqOf(c) == c

\* request r has not been made yet, and it is the next one to make
NextRequest(r) ==
  /\ request[r] = NoRequest
  /\ \A q \in Reqs : age[q] = 0
  /\ \A q \in 1..(r - 1) : request[q] # NoRequest

\* the method's integration: SendMessage and the response mapped back
Enqueue(r, c, body, available) ==
  /\ NextRequest(r)
  /\ LET rid == ContextRequestId(r)
         form == ParseForm(requestTemplate(body, rid))
         status == SendMessageStatus(form, available)
     IN /\ request' = [request EXCEPT ![r] = [chan |-> c, body |-> body]]
        /\ sqsStatus' = [sqsStatus EXCEPT ![r] = status]
        /\ response' = [response EXCEPT ![r] = MethodResponse(status, rid)]
        /\ IF status = 200
           THEN /\ msg' = [msg EXCEPT ![r] = [chan |-> QueueOf(c),
                                               body |-> FormValue(form, "MessageBody"),
                                               attrs |-> FormAttributes(form)]]
                /\ queue' = [queue EXCEPT ![QueueOf(c)] = @ \cup {r}]
           ELSE UNCHANGED <<msg, queue>>
  /\ UNCHANGED <<dlq, deleted, expired, visLeft, receiveCount, failedCount, age, inv,
                 handlerVars>>

\* a request made to the API's own endpoint
Post(r, c, body, available) ==
  /\ Enqueue(r, c, body, available)
  /\ UNCHANGED edgeVars

----------------------------------------------------------------------------
(* The distribution and its web ACL.  The rule counts the requests of each  *)
(* source IP over its window and blocks the IP while the count is over the *)
(* limit; a count is kept up to one past the limit.                        *)

rateLimit == 2000

\* mutant: the rule never matches
RateExceeded_never(n) == FALSE

\* RateLimitRule: the requests counted for the IP are over the limit
RateExceeded(n) == n > rateLimit

Counted(n) == IF n > rateLimit THEN rateLimit + 1 ELSE n

\* the response to a request the web ACL blocks
Forbidden == [statusCode |-> 403, message |-> "", requestId |-> ""]

\* POST /api/sample-lambda-<c> sent to the distribution from source address ip: the
\* web ACL blocks it, or the '/api/*' behaviour passes it on to the API
ViaDistribution(r, ip, c, body, available) ==
  /\ edgeCount' = [edgeCount EXCEPT ![ip] = Counted(@ + 1)]
  /\ IF RateExceeded(edgeCount[ip])
     THEN /\ NextRequest(r)
          /\ edge' = [edge EXCEPT ![r] = [verdict |-> "blocked", ip |-> ip]]
          /\ request' = [request EXCEPT ![r] = [chan |-> c, body |-> body]]
          /\ response' = [response EXCEPT ![r] = Forbidden]
          /\ UNCHANGED <<sqsStatus, msg, queue, dlq, deleted, expired, visLeft,
                         receiveCount, failedCount, age, inv, handlerVars>>
     ELSE /\ edge' = [edge EXCEPT ![r] = [verdict |-> "allowed", ip |-> ip]]
          /\ Enqueue(r, c, body, available)

\* Burst requests for static content (the default behaviour) from source address ip
Static(ip) ==
  /\ edgeCount[ip] <= rateLimit
  /\ edgeCount' = [edgeCount EXCEPT ![ip] = Counted(@ + Burst)]
  /\ UNCHANGED <<apiVars, msg, queue, dlq, deleted, expired, visLeft, receiveCount,
                 failedCount, age, inv, handlerVars, edge>>

\* the rule's window passes without a request from source address ip
WindowPass(ip) ==
  /\ edgeCount[ip] > 0
  /\ edgeCount' = [edgeCount EXCEPT ![ip] = 0]
  /\ UNCHANGED <<apiVars, msg, queue, dlq, deleted, expired, visLeft, receiveCount,
                 failedCount, age, inv, handlerVars, edge>>

NextEdge ==
  \/ \E r \in Reqs, ip \in IPs, c \in Chans : ViaDistribution(r, ip, c, <<"{", "}">>, TRUE)
  \/ \E r \in Reqs, c \in Chans : Post(r, c, <<"{", "}">>, TRUE)
  \/ \E ip \in IPs : Static(ip)
  \/ \E ip \in IPs : WindowPass(ip)

----------------------------------------------------------------------------
(* The queues and the event source mappings *)

\* mutant: the message is dead-lettered on reaching maxReceiveCount
ExceedsMaxReceive_atLimit(n) == n >= maxReceiveCount

\* the redrive policy: a receive that takes the count past maxReceiveCount
ExceedsMaxReceive(n) == n > maxReceiveCount

\* a poller receives visible message m for invocation slot i: SQS either moves the
\* message to the dead-letter queue or hides it for visibilityTimeout and hands it over
Receive(i, m) ==
  LET c == msg[m].chan
  IN /\ Visible(m)
     /\ \/ inv[i].state = "idle" /\ \A j \in 1..(i - 1) : inv[j].state # "idle"
        \/ inv[i].state = "batching" /\ inv[i].chan = c /\ Len(inv[i].batch) < batchSize
     /\ receiveCount' = [receiveCount EXCEPT ![m] = @ + 1]
     /\ IF ExceedsMaxReceive(receiveCount[m] + 1)
        THEN /\ queue' = [queue EXCEPT ![c] = @ \ {m}]
             /\ dlq' = [dlq EXCEPT ![DlqOf(c)] = @ \cup {m}]
             /\ UNCHANGED <<visLeft, inv>>
        ELSE /\ visLeft' = [visLeft EXCEPT ![m] = visibilityTimeout]
             /\ inv' = [inv EXCEPT ![i] =
                          [state |-> "batching", chan |-> c,
                           batch |-> Append(inv[i].batch, m),
                           timer |-> IF inv[i].state = "idle" THEN 0 ELSE inv[i].timer,
                           reported |-> {}]]
             /\ UNCHANGED <<queue, dlq>>
     /\ UNCHANGED <<apiVars, msg, deleted, expired, failedCount, age, handlerVars, edgeVars>>

\* mutant: the batch is handed over without waiting
Invoke_atOnce(i) ==
  /\ inv[i].state = "batching"
  /\ inv' = [inv EXCEPT ![i].state = "running", ![i].timer = 0]
  /\ UNCHANGED <<apiVars, msg, queue, dlq, deleted, expired, visLeft, receiveCount,
                 failedCount, age, handlerVars, edgeVars>>

\* the batch is handed to the function once it is full or the batching window is over
Invoke(i) ==
  /\ inv[i].state = "batching"
  /\ Len(inv[i].batch) = batchSize \/ inv[i].timer >= maxBatchingWindow
  /\ inv' = [inv EXCEPT ![i].state = "running", ![i].timer = 0]
  /\ UNCHANGED <<apiVars, msg, queue, dlq, deleted, expired, visLeft, receiveCount,
                 failedCount, age, handlerVars, edgeVars>>

\* SQS attributes as the event record carries them
EventAttributes(attrs) ==
  [n \in {p[1][1] : p \in attrs} |->
     LET v == (CHOOSE p \in attrs : p[1][1] = n)[2]
     IN IF v = <<>> THEN "" ELSE v[1]]

\* the event of invocation i
Event(i) ==
  [Records |-> [k \in 1..Len(inv[i].batch) |->
     LET m == inv[i].batch[k]
     IN [messageId |-> m,
         receiptHandle |-> <<m, receiveCount[m]>>,
         body |-> msg[m].body,
         messageAttributes |-> EventAttributes(msg[m].attrs)]]]

\* mutant: the event source mapping ignores the function's response
ReportedFailures_ignored(resp) == {}

\* the item identifiers a response reports, under reportBatchItemFailures
ReportedFailures(resp) ==
  IF reportBatchItemFailures /\ "batchItemFailures" \in DOMAIN resp
  THEN {resp.batchItemFailures[k].itemIdentifier : k \in 1..Len(resp.batchItemFailures)}
  ELSE {}

\* the handler returns after its loop; until then it changes nothing outside itself
Return(i) ==
  /\ inv[i].state = "running"
  /\ inv' = [inv EXCEPT ![i].state = "returned",
                        ![i].reported = ReportedFailures(HandlerOf(inv[i].chan, Event(i)))]
  /\ UNCHANGED <<apiVars, msg, queue, dlq, deleted, expired, visLeft, receiveCount,
                 failedCount, age, handlerVars, edgeVars>>

\* the invocation ends with an error (the runtime fails, an error escapes the handler)
Crash(i) ==
  /\ inv[i].state = "running"
  /\ inv' = [inv EXCEPT ![i].state = "failed"]
  /\ UNCHANGED <<apiVars, msg, queue, dlq, deleted, expired, visLeft, receiveCount,
                 failedCount, age, handlerVars, edgeVars>>

\* Lambda ends the invocation at the function's timeout
TimeOut(i) ==
  /\ inv[i].state = "running"
  /\ inv[i].timer >= timeout
  /\ inv' = [inv EXCEPT ![i].state = "timedout"]
  /\ UNCHANGED <<apiVars, msg, queue, dlq, deleted, expired, visLeft, receiveCount,
                 failedCount, age, handlerVars, edgeVars>>

\* mutant: an invocation that ended in an error is settled like one that returned
ToDelete_anyEnd(i) == Range(inv[i].batch) \ inv[i].reported

\* mutant: a report of any failure keeps the whole batch
ToDelete_allOrNothing(i) ==
  IF inv[i].state = "returned" /\ inv[i].reported = {} THEN Range(inv[i].batch) ELSE {}

\* the messages the event source mapping deletes when invocation i has ended
ToDelete(i) ==
  IF inv[i].state = "returned" THEN Range(inv[i].batch) \ inv[i].reported ELSE {}

\* the event source mapping acts on the outcome: it deletes what was processed and
\* leaves the rest in the queue, hidden until its visibility timeout is over
Settle(i) ==
  /\ Ended(i)
  /\ LET c == inv[i].chan
         del == ToDelete(i) \cap queue[c]
         kept == Range(inv[i].batch) \ ToDelete(i)
     IN /\ queue' = [queue EXCEPT ![c] = @ \ del]
        /\ deleted' = deleted \cup del
        /\ visLeft' = [m \in DOMAIN visLeft |-> IF m \in del THEN 0 ELSE visLeft[m]]
        /\ failedCount' = [m \in DOMAIN failedCount |->
                             IF m \in kept THEN failedCount[m] + 1 ELSE failedCount[m]]
  /\ inv' = [inv EXCEPT ![i] = IdleInv]
  /\ UNCHANGED <<apiVars, msg, dlq, expired, receiveCount, age, handlerVars, edgeVars>>

Max(a, b) == IF a >= b THEN a ELSE b

\* TickLen seconds pass; nothing that is due is left waiting
Tick ==
  /\ \A i \in Slots :
       /\ ~Ended(i)
       /\ inv[i].state = "batching" =>
            inv[i].timer < maxBatchingWindow /\ Len(inv[i].batch) < batchSize
       /\ inv[i].state = "running" => inv[i].timer < timeout
  /\ (\E i \in Slots : Active(i)) \/ (\E m \in DOMAIN visLeft : visLeft[m] > 0)
  /\ inv' = [i \in Slots |-> IF Active(i) THEN [inv[i] EXCEPT !.timer = @ + TickLen]
                             ELSE inv[i]]
  /\ visLeft' = [m \in DOMAIN visLeft |-> Max(0, visLeft[m] - TickLen)]
  /\ UNCHANGED <<apiVars, msg, queue, dlq, deleted, expired, receiveCount, failedCount,
                 age, handlerVars, edgeVars>>

\* the retention period that applies to message m where it is stored
RetentionOf(m) ==
  IF m \in DeadLettered THEN dlqRetentionPeriod ELSE queueRetentionPeriod

\* a day passes with no invocation under way and no message hidden: each queue
\* discards the messages that have reached its retention period
AgeStep ==
  /\ \A i \in Slots : inv[i].state = "idle"
  /\ \A m \in DOMAIN visLeft : visLeft[m] = 0
  /\ Stored \cup DeadLettered # {}
  /\ LET kept == Stored \cup DeadLettered
         old == {m \in kept : age[m] + 1 >= RetentionOf(m)}
     IN /\ age' = [m \in DOMAIN age |-> IF m \in kept THEN age[m] + 1 ELSE age[m]]
        /\ queue' = [c \in Chans |-> queue[c] \ old]
        /\ dlq' = [c \in Chans |-> dlq[c] \ old]
        /\ expired' = expired \cup old
  /\ UNCHANGED <<apiVars, msg, deleted, visLeft, receiveCount, failedCount, inv,
                 handlerVars, edgeVars>>

Next ==
  \/ \E r \in Reqs, c \in Chans, body \in BodySamples, available \in BOOLEAN :
       Post(r, c, body, available)
  \/ \E i \in Slots, m \in Reqs : Receive(i, m)
  \/ \E i \in Slots : Invoke(i)
  \/ \E i \in Slots : Return(i)
  \/ \E i \in Slots : Crash(i)
  \/ \E i \in Slots : TimeOut(i)
  \/ \E i \in Slots : Settle(i)
  \/ Tick
  \/ AgeStep

Spec == Init /\ [][Next]_vars

----------------------------------------------------------------------------
(* The enqueue endpoint alone, over every body up to MaxBodyLen characters *)

NextEnqueue ==
  \E r \in Reqs, c \in Chans, available \in BOOLEAN :
    \E body \in (IF r = 1 THEN AllBodies ELSE BodySamples) : Post(r, c, body, available)

SpecEnqueue == Init /\ [][NextEnqueue]_vars

\* the distribution in front of the enqueue endpoints
SpecEdge == Init /\ [][NextEdge]_vars

----------------------------------------------------------------------------
(* The handler of sample-lambda-2 alone, over batches of up to MaxBatch records *)

HandlerBodies == { <<"{", "}">>, <<"1">>, <<"{">>, <<"1", "&">> }

\* record k of a handler event; SQS message ids are distinct within a batch
RecordOf(k, body) ==
  [messageId |-> 100 + k, receiptHandle |-> <<100 + k, 1>>, body |-> body,
   messageAttributes |-> [Source |-> "API-Gateway", RequestId |-> "req-1"]]

HandlerEvents ==
  UNION { { [Records |-> [k \in 1..n |-> RecordOf(k, bodies[k])]] :
              bodies \in [1..n -> HandlerBodies] } : n \in 1..MaxBatch }

SetEvent(event) ==
  /\ hEvent = NoEvent
  /\ hEvent' = event
  /\ UNCHANGED <<apiVars, msg, queue, dlq, deleted, expired, visLeft, receiveCount,
                 failedCount, age, inv, hResponse, hResults, hError, edgeVars>>

RunHandler ==
  /\ hEvent # NoEvent
  /\ hResponse = NotReturned
  /\ hResponse' = handler(hEvent)
  /\ UNCHANGED <<apiVars, msg, queue, dlq, deleted, expired, visLeft, receiveCount,
                 failedCount, age, inv, hEvent, hResults, hError, edgeVars>>

NextHandler ==
  \/ \E event \in HandlerEvents : SetEvent(event)
  \/ RunHandler

SpecHandler == Init /\ [][NextHandler]_vars

----------------------------------------------------------------------------
(* The handler's loop, one record at a time *)

LoopStep ==
  /\ hEvent # NoEvent
  /\ hResponse = NotReturned
  /\ hError = NoError
  /\ LoopContinues(hResults, hEvent.Records)
  /\ LET record == hEvent.Records[Len(hResults) + 1]
     IN IF Escapes(record)
        THEN hError' = "uncaught" /\ UNCHANGED hResults
        ELSE hResults' = Append(hResults, ProcessRecord(record)) /\ UNCHANGED hError
  /\ UNCHANGED <<apiVars, msg, queue, dlq, deleted, expired, visLeft, receiveCount,
                 failedCount, age, inv, hEvent, hResponse, edgeVars>>

LoopEnd ==
  /\ hEvent # NoEvent
  /\ hResponse = NotReturned
  /\ hError = NoError
  /\ ~LoopContinues(hResults, hEvent.Records)
  /\ hResponse' = ReturnValue(hResults)
  /\ UNCHANGED <<apiVars, msg, queue, dlq, deleted, expired, visLeft, receiveCount,
                 failedCount, age, inv, hEvent, hResults, hError, edgeVars>>

NextLoop ==
  \/ \E event \in HandlerEvents : SetEvent(event)
  \/ LoopStep
  \/ LoopEnd

SpecLoop == Init /\ [][NextLoop]_vars

----------------------------------------------------------------------------
(* The catch block and the filter over any error a record's processing may *)
(* throw inside the try block                                              *)

Faults == {"", "boom"}

\* record k of an event, with a body that parses, whose processing throws fault
FaultRecord(k, fault) ==
  [messageId |-> 100 + k, receiptHandle |-> <<100 + k, 1>>, body |-> <<"{", "}">>,
   messageAttributes |-> [Source |-> "API-Gateway", RequestId |-> "req-1"],
   fault |-> fault]

FaultEvents ==
  UNION { { [Records |-> [k \in 1..n |->
                           IF f[k] = "none" THEN RecordOf(k, <<"{", "}">>)
                           ELSE FaultRecord(k, f[k])]] :
              f \in [1..n -> Faults \cup {"none"}] } : n \in 1..MaxBatch }

NextFault ==
  \/ \E event \in FaultEvents : SetEvent(event)
  \/ LoopStep
  \/ LoopEnd

SpecFault == Init /\ [][NextFault]_vars

----------------------------------------------------------------------------
(* Channel 2 served by one poller during the first day after the requests.  *)
(* The pollers keep polling, time passes, and Lambda ends every invocation *)
(* at its timeout at the latest: some step that is due is eventually taken.*)

NextPoison ==
  \/ \E r \in Reqs, body \in BodySamples : Post(r, 2, body, TRUE)
  \/ \E m \in Reqs : Receive(1, m)
  \/ Invoke(1)
  \/ Return(1)
  \/ Crash(1)
  \/ TimeOut(1)
  \/ Settle(1)
  \/ Tick

Progress ==
  \/ \E m \in Reqs : Receive(1, m)
  \/ Invoke(1)
  \/ TimeOut(1)
  \/ Settle(1)
  \/ Tick

SpecPoison == Init /\ [][NextPoison]_vars /\ WF_vars(Progress)

----------------------------------------------------------------------------
(* Channel 2 under load: up to MaxQueued requests, more than one batch      *)
(* holds, served by one poller that takes the visible messages in the      *)
(* order of their requests.                                                *)

Queued == 1..MaxQueued

InitBatch ==
  /\ request = [r \in Queued |-> NoRequest]
  /\ sqsStatus = [r \in Queued |-> 0]
  /\ response = [r \in Queued |-> NoResponse]
  /\ msg = [r \in Queued |-> NoMsg]
  /\ queue = [c \in Chans |-> {}]
  /\ dlq = [c \in Chans |-> {}]
  /\ deleted = {}
  /\ expired = {}
  /\ visLeft = [r \in Queued |-> 0]
  /\ receiveCount = [r \in Queued |-> 0]
  /\ failedCount = [r \in Queued |-> 0]
  /\ age = [r \in Queued |-> 0]
  /\ inv = [i \in Slots |-> IdleInv]
  /\ hEvent = NoEvent
  /\ hResponse = NotReturned
  /\ hResults = <<>>
  /\ hError = NoError
  /\ edge = [r \in Queued |-> NotSeen]
  /\ edgeCount = [ip \in IPs |-> 0]

FirstVisible(m) == Visible(m) /\ \A q \in 1..(m - 1) : ~Visible(q)

NextBatch ==
  \/ \E r \in Queued : Post(r, 2, <<"{", "}">>, TRUE)
  \/ \E m \in Queued : FirstVisible(m) /\ Receive(1, m)
  \/ Invoke(1)
  \/ Return(1)
  \/ Settle(1)
  \/ Tick

SpecBatch == InitBatch /\ [][NextBatch]_vars

----------------------------------------------------------------------------
(* Properties *)

Accepted(r) == sqsStatus[r] = 200
ParseFails(body) == JSONParse(body).threw
Holders(m) == {i \in Slots : Active(i) /\ m \in Range(inv[i].batch)}
Held(m) == Holders(m) # {}

\* C1: for a batch of N records of which exactly K fail to parse, the handler returns
\* batchItemFailures holding exactly the messageIds of those K records, each once, and
\* none of the other N-K; with K = 0 the returned value has no batchItemFailures at all.
C1_HandlerReportsExactlyFailures ==
  hResponse # NotReturned =>
    LET records == hEvent.Records
        failing == {k \in 1..Len(records) : ParseFails(records[k].body)}
    IN IF failing = {}
       THEN /\ "batchItemFailures" \notin DOMAIN hResponse
            /\ hResponse.statusCode = 200
            /\ hResponse.processedCount = Len(records)
       ELSE /\ DOMAIN hResponse = {"batchItemFailures"}
            /\ Len(hResponse.batchItemFailures) = Cardinality(failing)
            /\ {hResponse.batchItemFailures[j].itemIdentifier :
                  j \in 1..Len(hResponse.batchItemFailures)}
               = {records[k].messageId : k \in failing}

\* a batch of three records of which one or two failed, and the handler has returned
C1_Witness ==
  /\ hResponse # NotReturned
  /\ Len(hEvent.Records) = 3
  /\ "batchItemFailures" \in DOMAIN hResponse
  /\ Len(hResponse.batchItemFailures) \in {1, 2}

\* C2: a message is dead-lettered only after maxReceiveCount (3) failed deliveries: with
\* fewer it stays in its primary queue for redelivery; after the third failure it is
\* never handed to the consumer again, and once moved it never returns to the primary queue.
C2_RedriveAtThreshold ==
  \A m \in Reqs :
    /\ m \in DeadLettered => failedCount[m] = maxReceiveCount
    /\ (Accepted(m) /\ failedCount[m] < maxReceiveCount /\ m \notin deleted \cup expired)
         => m \in queue[msg[m].chan]
    /\ Held(m) => failedCount[m] < maxReceiveCount /\ receiveCount[m] <= maxReceiveCount
    /\ receiveCount[m] > maxReceiveCount =>
         /\ m \in dlq[msg[m].chan] \cup expired
         /\ m \notin Stored
         /\ \A i \in Slots : m \notin Range(inv[i].batch)

\* a message in the dead-letter queue after three failed deliveries, the third of them
\* made when it had failed twice
C2_Witness ==
  \E m \in Reqs :
    m \in DeadLettered /\ failedCount[m] = 3 /\ receiveCount[m] = 4

\* C3: every accepted message is in exactly one of: its primary queue, deleted after a
\* delivery that did not fail, its dead-letter queue, or discarded by retention; a
\* message leaves the primary queue undeleted only past the redelivery threshold or the
\* retention period, and a message whose processing fails is never deleted.
C3_NoSilentLoss ==
  \A r \in Reqs :
    LET places == << r \in Stored, r \in deleted, r \in DeadLettered, r \in expired >>
    IN /\ Cardinality({k \in 1..4 : places[k]}) = (IF Accepted(r) THEN 1 ELSE 0)
       /\ \A c \in Chans : r \in queue[c] \cup dlq[c] => msg[r].chan = c
       /\ r \in deleted => ~ParseFails(msg[r].body) /\ receiveCount[r] >= 1
       /\ r \in DeadLettered => receiveCount[r] > maxReceiveCount
       /\ r \in expired => age[r] >= queueRetentionPeriod

\* a message that fails to parse has been delivered, reported and kept in its queue
C3_Witness ==
  \E r \in Reqs :
    /\ Accepted(r) /\ ParseFails(msg[r].body)
    /\ failedCount[r] >= 1
    /\ r \in Stored

\* C4: when SQS rejects the SendMessage call, the caller of POST /api/<channel> receives
\* a non-2xx response; the 200 response is returned only when the enqueue succeeded.
C4_RejectedEnqueueIsNon2xx ==
  \A r \in Reqs :
    /\ (sqsStatus[r] # 0 /\ sqsStatus[r] \notin 200..299)
         => response[r].statusCode \notin 200..299
    /\ response[r].statusCode = 200 => sqsStatus[r] = 200

\* C5: for every accepted enqueue call the stored message has the submitted body,
\* character for character, and exactly the attributes Source = API-Gateway and
\* RequestId = the request id that the 200 response returns to the caller.
C5_MessageAsSubmitted ==
  \A r \in Reqs :
    Accepted(r) =>
      /\ msg[r].body = request[r].body
      /\ msg[r].chan = request[r].chan
      /\ msg[r].attrs = { << <<"Source">>, <<"API-Gateway">> >>,
                          << <<"RequestId">>, <<response[r].requestId>> >> }
      /\ response[r].requestId = ContextRequestId(r)

\* an accepted message whose body holds the characters the form encoding reserves
C5_Witness ==
  \E r \in Reqs :
    /\ Accepted(r)
    /\ Range(request[r].body) \cap {"&", "=", "%", "+", " "} # {}
    /\ msg[r].body = request[r].body

\* C6: the success response is produced only after the message is stored, and no
\* consumer step changes it.
C6_SuccessOnlyAfterStored ==
  \A r \in Reqs : response[r].statusCode \in 200..299 => msg[r] # NoMsg

\* the part of C6 the code keeps: a response, once given, is the same whatever happens
\* to the message later
C6_ResponseUnchangedByConsumer ==
  [][\A r \in Reqs : response[r] # NoResponse => response'[r] = response[r]]_vars

\* C7: a message is held by at most one invocation at a time, and stays hidden for as
\* long as the invocation that received it is collecting its batch or running.
C7_OneInvocationAtATime ==
  \A m \in Reqs :
    /\ Cardinality(Holders(m)) <= 1
    /\ Held(m) => visLeft[m] > 0 /\ m \in Stored

\* an invocation that has run for its whole timeout while its message is still hidden
C7_Witness ==
  \E i \in Slots, m \in Reqs :
    /\ inv[i].state = "running"
    /\ inv[i].timer >= timeout
    /\ m \in Range(inv[i].batch)
    /\ visLeft[m] > 0
    /\ \E j \in Slots \ {i} : inv[j].state = "idle"

\* the retention period the documentation states for the queues (days)
documentedRetention == 14

\* C8: primary queues and dead-letter queues keep an undeleted message for the same
\* 14 days: no message is discarded before it is 14 days old.
C8_SameRetention14Days ==
  \A m \in Reqs : m \in expired => age[m] >= documentedRetention

\* the part of C8 the code keeps: a dead-lettered message is kept until day 14
C8_DlqKeeps14Days ==
  \A m \in Reqs : (m \in DeadLettered => age[m] < dlqRetentionPeriod)
                  /\ (m \in expired /\ receiveCount[m] > maxReceiveCount
                        => age[m] = dlqRetentionPeriod)

\* C9: when an invocation ends with an error or is terminated at its 30 s timeout, no
\* message of its batch is deleted: each stays in the queue, counted as a failed
\* delivery, hidden for the rest of its visibility timeout and no longer.
C9_AbortFailsWholeBatch ==
  [][\A i \in Slots :
       /\ (inv[i].state = "running" /\ inv'[i].state = "timedout")
            => inv[i].timer = timeout
       /\ (inv[i].state \in {"failed", "timedout"} /\ inv'[i].state = "idle")
            => \A m \in Range(inv[i].batch) :
                 /\ m \in queue'[inv[i].chan]
                 /\ m \notin deleted'
                 /\ failedCount'[m] = failedCount[m] + 1
                 /\ visLeft'[m] = visLeft[m]
                 /\ visLeft'[m] \in 1..visibilityTimeout]_vars

\* a message that parses, visible again after a delivery that ended in a timeout or error
C9_Witness ==
  \E m \in Reqs :
    /\ Accepted(m) /\ ~ParseFails(msg[m].body)
    /\ failedCount[m] >= 1
    /\ Visible(m)

\* C10: when a returned invocation is settled, the messages its report names stay in
\* the queue and every other message of the batch is deleted; a deleted message is
\* never stored or delivered again.
C10_PartialFailureSettled ==
  /\ [](\A m \in deleted :
         m \notin Stored \cup DeadLettered /\ ~Held(m) /\ visLeft[m] = 0)
  /\ [][\A i \in Slots :
          (inv[i].state = "returned" /\ inv'[i].state = "idle")
            => \A m \in Range(inv[i].batch) :
                 IF m \in inv[i].reported
                 THEN m \in queue'[inv[i].chan] /\ m \notin deleted'
                      /\ visLeft'[m] = visLeft[m]
                 ELSE m \notin queue'[inv[i].chan] /\ m \in deleted']_vars

\* an invocation has returned a report that names one message of its batch and not the other
C10_Witness ==
  \E i \in Slots :
    /\ inv[i].state = "returned"
    /\ inv[i].reported # {}
    /\ Range(inv[i].batch) \ inv[i].reported # {}

\* a message of channel 2 whose body fails parsing on every delivery
Poison(m) == Accepted(m) /\ msg[m].chan = 2 /\ ParseFails(msg[m].body)

Due(i) ==
  /\ inv[i].state = "batching"
  /\ Len(inv[i].batch) = batchSize \/ inv[i].timer >= maxBatchingWindow

C13_RateLimitedAtEdge ==
  /\ [](\A r \in Reqs :
          edge[r].verdict = "blocked" =>
            /\ sqsStatus[r] = 0
            /\ msg[r] = NoMsg
            /\ r \notin Stored \cup DeadLettered
            /\ response[r] = Forbidden)
  /\ [][\A r \in Reqs :
          edge[r] = NotSeen /\ edge'[r] # NotSeen =>
            LET ip == edge'[r].ip
            IN /\ edgeCount[ip] > rateLimit => edge'[r].verdict = "blocked"
               /\ edgeCount[ip] <= rateLimit =>
                     edge'[r].verdict = "allowed" /\ sqsStatus'[r] # 0]_vars

\* one request was passed on and stored, and a later one from the same IP was blocked
C13_Witness ==
  \E r, q \in Reqs :
    /\ edge[r].verdict = "allowed" /\ msg[r] # NoMsg
    /\ edge[q].verdict = "blocked" /\ edge[q].ip = edge[r].ip
    /\ edgeCount[3 - edge[q].ip] <= rateLimit

\* the message a result entry stands for
ResultId(result) ==
  IF "itemIdentifier" \in DOMAIN result THEN result.itemIdentifier ELSE result.messageId

\* C14: the handler attempts the records one at a time in batch order, each exactly
\* once, going on after a record that failed: the k-th result entry is always that of
\* the k-th record, each step adds one entry after the others, and when the handler
\* returns the number of result entries equals the number of records.
C14_EveryRecordAttempted ==
  /\ [](LET records == hEvent.Records
        IN /\ Len(hResults) <= Len(records)
           /\ \A k \in 1..Len(hResults) : ResultId(hResults[k]) = records[k].messageId
           /\ hResponse # NotReturned =>
                 /\ Len(hResults) = Len(records)
                 /\ "statusCode" \in DOMAIN hResponse =>
                       hResponse.processedCount = Len(records))
  /\ [][hResults' # hResults =>
          /\ Len(hResults') = Len(hResults) + 1
          /\ SubSeq(hResults', 1, Len(hResults)) = hResults]_vars

\* the first of three records failed and the handler has returned with three entries
C14_Witness ==
  /\ hResponse # NotReturned
  /\ Len(hEvent.Records) = 3
  /\ Len(hResults) = 3
  /\ "error" \in DOMAIN hResults[1]
  /\ "error" \notin DOMAIN hResults[3]

\* C15: for every batch of records with a messageId and a string body, whether it
\* parses or not, no error escapes the handler: while the handler has not returned it
\* can take its next step, and what it returns is a report of failures or a success
\* result, never an invocation error.
C15_NoErrorEscapes ==
  /\ hError = NoError
  /\ hEvent # NoEvent /\ hResponse = NotReturned => ENABLED (LoopStep \/ LoopEnd)
  /\ hResponse # NotReturned =>
        \/ DOMAIN hResponse = {"batchItemFailures"}
        \/ DOMAIN hResponse = {"statusCode", "processedCount", "results"}

\* the handler has returned for a batch all of whose bodies fail to parse
C15_Witness ==
  /\ hResponse # NotReturned
  /\ hError = NoError
  /\ Len(hEvent.Records) > 1
  /\ \A k \in 1..Len(hEvent.Records) : ParseFails(hEvent.Records[k].body)

StepOn(c) ==
  \/ \E r \in Reqs : request[r] = NoRequest /\ request'[r].chan = c
  \/ \E m \in Reqs : request[m].chan = c /\ receiveCount'[m] # receiveCount[m]
  \/ \E i \in Slots : inv[i].chan = c /\ inv'[i] # inv[i]

\* C17: a message accepted at POST /api/sample-lambda-<c> is only ever stored in queue
\* c, held by an invocation of consumer c and dead-lettered to dead-letter queue c, and
\* no enqueue, delivery, failure or dead-letter step on one channel changes the queue
\* or the dead-letter queue of the other channel.
C17_ChannelsIsolated ==
  /\ [](/\ \A c \in Chans : \A m \in queue[c] \cup dlq[c] : request[m].chan = c
        /\ \A i \in Slots : \A m \in Range(inv[i].batch) :
              request[m].chan = inv[i].chan)
  /\ [][\A c \in Chans :
          StepOn(c) =>
            \A o \in Chans \ {c} : queue'[o] = queue[o] /\ dlq'[o] = dlq[o]]_vars

\* a message of channel 2 has been dead-lettered while a message of channel 1 is with
\* its consumer
C17_Witness ==
  \E m, q \in Reqs, i \in Slots :
    /\ request[m].chan = 2 /\ m \in dlq[2]
    /\ request[q].chan = 1 /\ q \in queue[1]
    /\ inv[i].state = "running" /\ inv[i].chan = 1 /\ q \in Range(inv[i].batch)

====
